---- MODULE Spec2Model ----
(***************************************************************************)
(* A model of substance's virtual DOM layer (VirtualElement.js):           *)
(* VirtualElement, VirtualHTMLElement, VirtualComponent, Outlet,          *)
(* VirtualTextNode, VirtualElement.createElement and                       *)
(* VirtualElement.Context.                                                 *)
(*                                                                         *)
(* Objects live in an arena: a node is its index in `nodes`, 0 is          *)
(* null/undefined.  Every public call is one action; a call that throws    *)
(* keeps whatever it had already written before the throw.                 *)
(***************************************************************************)
EXTENDS Integers, Sequences, FiniteSets, TLC

VARIABLES nodes, ctxs, last, steps

vars == <<nodes, ctxs, last, steps>>

\* ---------------------------------------------------------------- bounds
MaxNodes == 3
MaxSteps == 3

\* ---------------------------------------------------------------- JS values
NULL == "null"
UNDEFINED == "undefined"

Str(s) == [t |-> "str", v |-> s]
Num(i) == [t |-> "num", v |-> i]
Bool(b) == [t |-> "bool", v |-> b]
Fn(f) == [t |-> "fn", v |-> f]
Obj(o) == [t |-> "obj", v |-> o]
Arr(a) == [t |-> "arr", v |-> a]
NodeV(n) == [t |-> "node", v |-> n]
Undef == [t |-> "undefined", v |-> 0]
Null == [t |-> "null", v |-> 0]

\* truthiness of a JS value
Truthy(x) ==
    CASE x.t = "str" -> x.v # ""
      [] x.t = "num" -> x.v # 0
      [] x.t = "bool" -> x.v
      [] x.t \in {"undefined", "null"} -> FALSE
      [] OTHER -> TRUE

\* truthiness of a string-valued field that may be null or undefined
TruthyS(s) == s \notin {"", NULL, UNDEFINED}

\* String(x) for the primitive values
String(x) ==
    CASE x.t = "str" -> x.v
      [] x.t = "num" -> ToString(x.v)
      [] x.t = "bool" -> (IF x.v THEN "true" ELSE "false")
      [] x.t = "undefined" -> "undefined"
      [] x.t = "null" -> "null"
      [] OTHER -> "[object Object]"

isNil(x) == x.t \in {"undefined", "null"}
isString(x) == x.t = "str"
isBoolean(x) == x.t = "bool"
isNumber(x) == x.t = "num"
isFunction(x) == x.t = "fn"
isArray(x) == x.t = "arr"

\* ---------------------------------------------------------------- results
\* What a call leaves: the heap, the message of the error it threw ("" when it
\* returned) and the value it returned.
Ok(h, ret) == [h |-> h, err |-> "", ret |-> ret]
Throw(h, err) == [h |-> h, err |-> err, ret |-> 0]

\* `return value` after a call that may have thrown
Returning(r, value) == IF r.err # "" THEN r ELSE Ok(r.h, value)

\* ---------------------------------------------------------------- universe
RefIds == {"x", "y"}
CtxIds == {1, 2}
OwnerOf(c) == IF c = 1 THEN "A" ELSE "B"


\* ---------------------------------------------------------------- objects
\* An optional field (null or a value) is <<>> or <<value>>.
None == <<>>
Some(x) == <<x>>

\* A JS Map / plain object with insertion order: a sequence of [k, v] pairs.
MapHas(m, k) == \E i \in 1..Len(m) : m[i].k = k
MapGet(m, k) == m[CHOOSE i \in 1..Len(m) : m[i].k = k].v
MapSet(m, k, v) ==
    IF MapHas(m, k)
    THEN [i \in 1..Len(m) |-> IF m[i].k = k THEN [k |-> k, v |-> v] ELSE m[i]]
    ELSE Append(m, [k |-> k, v |-> v])
MapDelete(m, k) == SelectSeq(m, LAMBDA p : p.k # k)

\* new Map([...a, ...b]): b's value wins on a key of both, a's position is kept
RECURSIVE MapUnion(_, _)
MapUnion(a, b) ==
    IF b = <<>> THEN a ELSE MapUnion(MapSet(a, Head(b).k, Head(b).v), Tail(b))

\* new VirtualElement(owner): the three constructors below all call super()
\* without an owner, so _owner starts undefined.
VirtualElement(kind) ==
    [kind |-> kind, parent |-> 0, owner |-> UNDEFINED, ref |-> NULL, context |-> 0,
     tagName |-> UNDEFINED, classNames |-> None, attributes |-> None,
     htmlProps |-> None, style |-> None, eventListeners |-> None,
     children |-> <<>>, innerHTML |-> UNDEFINED,
     ComponentClass |-> UNDEFINED, props |-> <<>>,
     text |-> UNDEFINED, preliminaryParent |-> 0]

VirtualHTMLElement(tagName) ==
    [VirtualElement("element") EXCEPT !.tagName = tagName]

\* if (!props.children) props.children = []; this.children = props.children
VirtualComponent_props(props) ==
    IF MapHas(props, "children") /\ Truthy(MapGet(props, "children")) THEN props
    ELSE MapSet(props, "children", Arr(<<>>))

\* this.children and props.children name one array object: `children` is what
\* the first name shows, the `children` entry of `props` what the second shows.
VirtualComponent(ComponentClass, props) ==
    [VirtualElement("component") EXCEPT
        !.ComponentClass = ComponentClass,
        !.props = VirtualComponent_props(props),
        !.children = MapGet(VirtualComponent_props(props), "children").v]

VirtualTextNode(text) ==
    [VirtualElement("text") EXCEPT !.text = text]

\* allocate an object in the arena
New(h, obj) == [h EXCEPT !.nodes = Append(@, obj)]

VirtualElementContext(owner) ==
    [owner |-> owner,
     refs |-> [r \in RefIds |-> 0],
     \* foreignRefs is a Map: `entries` is what has/get/delete see, `own` are the
     \* plain properties written with foreignRefs[key] = value
     foreignRefs |-> [entries |-> [r \in RefIds |-> 0], own |-> [r \in RefIds |-> 0]],
     elements |-> <<>>,
     components |-> <<>>,
     injectedComponents |-> <<>>]

\* Array.prototype.indexOf, 0-based, -1 when absent
indexOf(s, x) ==
    IF \E i \in 1..Len(s) : s[i] = x
    THEN (CHOOSE i \in 1..Len(s) : s[i] = x /\ \A j \in 1..(i - 1) : s[j] # x) - 1
    ELSE -1

\* Array.prototype.splice(pos, 0, x) and splice(pos, 1), 0-based
spliceIn(s, pos, x) == SubSeq(s, 1, pos) \o <<x>> \o SubSeq(s, pos + 1, Len(s))
spliceOut(s, pos) == SubSeq(s, 1, pos) \o SubSeq(s, pos + 2, Len(s))

\* util/deleteFromArray: removes every occurrence
RECURSIVE deleteFromArray(_, _)
deleteFromArray(s, x) ==
    IF s = <<>> THEN <<>>
    ELSE IF Head(s) = x THEN deleteFromArray(Tail(s), x)
    ELSE <<Head(s)>> \o deleteFromArray(Tail(s), x)

\* ---------------------------------------------------------------- VirtualElement
\* ref() without the "can only be referenced once" guard
ref_Rebinds(h, n, r) ==
    IF ~Truthy(r) THEN Throw(h, "Illegal argument")
    ELSE LET h1 == [h EXCEPT !.nodes[n].ref = r.v]
             c == h.nodes[n].context
         IN IF c # 0
            THEN IF h1.ctxs[c].refs[r.v] # 0
                 THEN Throw(h1, "An item with reference already exists.")
                 ELSE Ok([h1 EXCEPT !.ctxs[c].refs[r.v] = n], n)
            ELSE Ok(h1, n)

ref(h, n, r) ==
    IF ~Truthy(r) THEN Throw(h, "Illegal argument")
    ELSE IF TruthyS(h.nodes[n].ref) THEN Throw(h, "A VirtualElement can only be referenced once.")
    ELSE LET h1 == [h EXCEPT !.nodes[n].ref = r.v]
             c == h.nodes[n].context
         IN IF c # 0
            THEN IF h1.ctxs[c].refs[r.v] # 0
                 THEN Throw(h1, "An item with reference already exists.")
                 ELSE Ok([h1 EXCEPT !.ctxs[c].refs[r.v] = n], n)
            ELSE Ok(h1, n)

\* ---------------------------------------------------------------- VirtualHTMLElement
addClass(h, n, className) ==
    LET cur == h.nodes[n].classNames
        arr == IF cur = None THEN <<>> ELSE cur[1]
    IN [h EXCEPT !.nodes[n].classNames = Some(Append(arr, className))]

setAttribute(h, n, name, value) ==
    LET cur == h.nodes[n].attributes
        m == IF cur = None THEN <<>> ELSE cur[1]
    IN [h EXCEPT !.nodes[n].attributes = Some(MapSet(m, name, String(value)))]

\* util/without: the array without the given value
without(arr, value) == SelectSeq(arr, LAMBDA x : x # value)

removeClass(h, n, className) ==
    IF h.nodes[n].classNames = None THEN h
    ELSE [h EXCEPT !.nodes[n].classNames = Some(without(@[1], className))]

removeAttribute(h, n, name) ==
    IF h.nodes[n].attributes = None THEN h
    ELSE [h EXCEPT !.nodes[n].attributes = Some(MapDelete(@[1], name))]

setProperty(h, n, name, value) ==
    LET cur == h.nodes[n].htmlProps
        m == IF cur = None THEN <<>> ELSE cur[1]
    IN [h EXCEPT !.nodes[n].htmlProps = Some(MapSet(m, name, value))]

\* DOMElement.pxStyles: the style keys whose numeric values get a length unit
pxStyles == {"width", "height"}

setStyle(h, n, name, value) ==
    LET cur == h.nodes[n].style
        m == IF cur = None THEN <<>> ELSE cur[1]
        val == IF name \in pxStyles /\ isNumber(value) THEN Str(String(value) \o "px") ELSE value
    IN [h EXCEPT !.nodes[n].style = Some(MapSet(m, name, val))]

\* Array.prototype.join for an array of strings
RECURSIVE join(_, _)
join(arr, sep) ==
    IF arr = <<>> THEN ""
    ELSE IF Len(arr) = 1 THEN arr[1]
    ELSE arr[1] \o sep \o join(Tail(arr), sep)

\* util/map(this.style, function (val, key) { return key + ':' + val })
styleEntries(style) == [i \in 1..Len(style) |-> style[i].k \o ":" \o String(style[i].v)]

\* getAttributes: a Map of the attributes, then `class`, then `style`
getAttributes(h, n) ==
    LET this == h.nodes[n]
        e1 == IF this.attributes # None THEN this.attributes[1] ELSE <<>>
        e2 == IF this.classNames # None
              THEN Append(e1, [k |-> "class", v |-> join(this.classNames[1], " ")]) ELSE e1
        e3 == IF this.style # None
              THEN Append(e2, [k |-> "style", v |-> join(styleEntries(this.style[1]), ";")])
              ELSE e2
    IN MapUnion(<<>>, e3)

\* DOMElement.addEventListener: the listener is pushed on eventListeners
addEventListener(h, n, listener) ==
    LET cur == h.nodes[n].eventListeners
        arr == IF cur = None THEN <<>> ELSE cur[1]
    IN [h EXCEPT !.nodes[n].eventListeners = Some(Append(arr, listener))]

\* _copy: undefined (None) when nothing is set, else an object with a copy of
\* every field that is set
_copy(h, n) ==
    LET this == h.nodes[n]
    IN IF this.classNames # None \/ this.attributes # None \/ this.eventListeners # None
          \/ this.htmlProps # None \/ this.style # None
       THEN Some([classNames |-> this.classNames, attributes |-> this.attributes,
                  eventListeners |-> this.eventListeners, htmlProps |-> this.htmlProps,
                  style |-> this.style])
       ELSE None

_clear(h, n) ==
    [h EXCEPT !.nodes[n].classNames = None, !.nodes[n].attributes = None,
              !.nodes[n].htmlProps = None, !.nodes[n].style = None,
              !.nodes[n].eventListeners = None]

\* the map loop of _merge with this node's value kept on a key of both
_merge_map_ThisWins(thisVal, otherVal) ==
    IF otherVal = None THEN thisVal
    ELSE IF thisVal = None THEN otherVal
    ELSE Some(MapUnion(otherVal[1], thisVal[1]))

\* one round of the two loops of _merge
_merge_array(thisVal, otherVal) ==
    IF otherVal = None THEN thisVal
    ELSE IF thisVal = None THEN otherVal
    ELSE Some(thisVal[1] \o otherVal[1])

_merge_map(thisVal, otherVal) ==
    IF otherVal = None THEN thisVal
    ELSE IF thisVal = None THEN otherVal
    ELSE Some(MapUnion(thisVal[1], otherVal[1]))

\* _merge(other): other is what _copy returned
_merge(h, n, other) ==
    IF other = None THEN h
    ELSE [h EXCEPT !.nodes[n].classNames = _merge_array(@, other[1].classNames),
                   !.nodes[n].eventListeners = _merge_array(@, other[1].eventListeners),
                   !.nodes[n].attributes = _merge_map(@, other[1].attributes),
                   !.nodes[n].htmlProps = _merge_map(@, other[1].htmlProps),
                   !.nodes[n].style = _merge_map(@, other[1].style)]

\* _normalizeChild that drops every falsy child (`if (!child) return`)
_normalizeChild_DropsFalsy(h, child) ==
    IF ~Truthy(child) THEN Ok(h, 0)
    ELSE IF child.t = "node" THEN Ok(h, child.v)
    ELSE IF isString(child) \/ isBoolean(child) \/ isNumber(child)
         THEN Ok(New(h, VirtualTextNode(String(child))), Len(h.nodes) + 1)
    ELSE Throw(h, "Unsupported child type")

_normalizeChild(h, child) ==
    IF isNil(child) THEN Ok(h, 0)
    ELSE IF child.t = "node" THEN Ok(h, child.v)
    ELSE IF isString(child) \/ isBoolean(child) \/ isNumber(child)
         THEN Ok(New(h, VirtualTextNode(String(child))), Len(h.nodes) + 1)
    ELSE Throw(h, "Unsupported child type")

\* an _attach that hands the child over to the receiver's owner
VirtualHTMLElement_attach_Adopts(h, n, child) ==
    [h EXCEPT !.nodes[child].parent = n, !.nodes[child].owner = h.nodes[n].owner]

VirtualHTMLElement_attach(h, n, child) ==
    LET h1 == [h EXCEPT !.nodes[child].parent = n]
        this == h1.nodes[n]
        c == h1.nodes[child]
    IN IF this.context # 0
       THEN LET h2 == IF c.owner # this.owner /\ c.kind = "component"
                      THEN [h1 EXCEPT !.ctxs[this.context].injectedComponents = Append(@, child)]
                      ELSE h1
            IN IF c.owner # this.owner /\ TruthyS(c.ref)
               THEN [h2 EXCEPT !.ctxs[this.context].foreignRefs.own[c.ref] = child]
               ELSE h2
       ELSE h1

VirtualHTMLElement_detach(h, n, child) ==
    LET h1 == [h EXCEPT !.nodes[child].parent = 0]
        this == h1.nodes[n]
        c == h1.nodes[child]
    IN IF this.context # 0
       THEN LET h2 == IF c.kind = "component"
                      THEN [h1 EXCEPT !.ctxs[this.context].injectedComponents =
                                          deleteFromArray(@, child)]
                      ELSE h1
            IN IF c.owner # this.owner /\ TruthyS(c.ref)
               THEN [h2 EXCEPT !.ctxs[this.context].foreignRefs.entries[c.ref] = 0]
               ELSE h2
       ELSE h1

VirtualComponent_attach(h, n, child) ==
    [h EXCEPT !.nodes[child].preliminaryParent = n]

VirtualComponent_detach(h, n, child) ==
    [h EXCEPT !.nodes[child].preliminaryParent = 0]

\* this._attach(child) / this._detach(child): dispatch on the receiver's class
_attach(h, n, child) ==
    IF h.nodes[n].kind = "component"
    THEN VirtualComponent_attach(h, n, child)
    ELSE VirtualHTMLElement_attach(h, n, child)

_detach(h, n, child) ==
    IF h.nodes[n].kind = "component"
    THEN VirtualComponent_detach(h, n, child)
    ELSE VirtualHTMLElement_detach(h, n, child)

\* The list an `outlet` argument denotes: this.children (for a component that is
\* props.children) or a named slot of props.
outletGet(h, n, outlet) ==
    IF outlet = "children" THEN h.nodes[n].children ELSE MapGet(h.nodes[n].props, outlet).v

\* a write that gives this.children a new array and leaves props.children alone
outletSet_Reassigns(h, n, outlet, list) ==
    IF outlet = "children" THEN [h EXCEPT !.nodes[n].children = list]
    ELSE [h EXCEPT !.nodes[n].props = MapSet(@, outlet, Arr(list))]

\* push / splice / pop change the array object in place: every name of that
\* object shows the new content
outletSet(h, n, outlet, list) ==
    IF outlet = "children"
    THEN IF h.nodes[n].kind = "component"
         THEN [h EXCEPT !.nodes[n].children = list,
                        !.nodes[n].props = MapSet(@, "children", Arr(list))]
         ELSE [h EXCEPT !.nodes[n].children = list]
    ELSE [h EXCEPT !.nodes[n].props = MapSet(@, outlet, Arr(list))]

\* _appendChild after `child = this._normalizeChild(child)`; r is that call's result
_appendChild_push(r, n, outlet) ==
    IF r.err # "" THEN r
    ELSE IF r.ret = 0 THEN Ok(r.h, 0)
    ELSE Ok(_attach(outletSet(r.h, n, outlet, Append(outletGet(r.h, n, outlet), r.ret)),
                    n, r.ret), r.ret)

_appendChild(h, n, outlet, child) ==
    _appendChild_push(_normalizeChild(h, child), n, outlet)

\* children.forEach(this._appendChild.bind(this, outlet)): stops at the first throw
RECURSIVE forEach_appendChild(_, _, _, _)
forEach_appendChild(r, n, outlet, children) ==
    IF r.err # "" \/ children = <<>> THEN r
    ELSE forEach_appendChild(_appendChild(r.h, n, outlet, Head(children)), n, outlet,
                             Tail(children))

_append(h, n, outlet, args) ==
    IF Len(args) = 1 /\ ~isArray(args[1]) THEN _appendChild(h, n, outlet, args[1])
    ELSE forEach_appendChild(Ok(h, 0), n, outlet,
                             IF Len(args) > 0 /\ isArray(args[1]) THEN args[1].v ELSE args)

_insertAt(h, n, outlet, pos, child) ==
    IF child = 0 THEN h
    ELSE _attach(outletSet(h, n, outlet, spliceIn(outletGet(h, n, outlet), pos, child)), n, child)

\* _removeAt (outlet, pos): `outlet` is whatever the caller passes first
_removeAt(h, n, outlet, pos) ==
    IF ~isArray(outlet) THEN Throw(h, "TypeError: outlet.splice is not a function")
    ELSE LET child == h.nodes[n].children[pos.v + 1]
         IN Ok(_detach([h EXCEPT !.nodes[n].children = spliceOut(@, pos.v)], n, child), 0)


\* ---------------------------------------------------------------- public child API
append(h, n, args) ==
    IF TruthyS(h.nodes[n].innerHTML)
    THEN Throw(h, "It is not possible to mix $$.html() with $$.append().")
    ELSE Returning(_append(h, n, "children", args), n)

appendChild(h, n, child) ==
    IF TruthyS(h.nodes[n].innerHTML)
    THEN Throw(h, "It is not possible to mix $$.html() with $$.append().")
    ELSE Returning(_appendChild(h, n, "children", child), n)

\* the bounds check with `pos >= this.children.length`
insertAt_checked_RejectsLength(r, n, pos) ==
    IF r.err # "" THEN r
    ELSE IF r.ret = 0 THEN Throw(r.h, "Illegal child")
    ELSE IF pos < 0 \/ pos >= Len(r.h.nodes[n].children)
         THEN Throw(r.h, "insertAt(): index out of bounds.")
    ELSE Ok(_insertAt(r.h, n, "children", pos, r.ret), n)

\* insertAt after `child = this._normalizeChild(child)`; r is that call's result
insertAt_checked(r, n, pos) ==
    IF r.err # "" THEN r
    ELSE IF r.ret = 0 THEN Throw(r.h, "Illegal child")
    ELSE IF pos < 0 \/ pos > Len(r.h.nodes[n].children)
         THEN Throw(r.h, "insertAt(): index out of bounds.")
    ELSE Ok(_insertAt(r.h, n, "children", pos, r.ret), n)

insertAt(h, n, pos, child) ==
    insertAt_checked(_normalizeChild(h, child), n, pos)

insertBefore(h, n, child, before) ==
    LET pos == IF before.t = "node" THEN indexOf(h.nodes[n].children, before.v) ELSE -1
    IN IF pos > -1 THEN insertAt(h, n, pos, child)
       ELSE Throw(h, "insertBefore(): reference node is not a child of this element.")

removeAt(h, n, pos) ==
    IF pos < 0 \/ pos >= Len(h.nodes[n].children)
    THEN Throw(h, "removeAt(): Index out of bounds.")
    ELSE Returning(_removeAt(h, n, Num(pos), Undef), n)

removeChild(h, n, child) ==
    IF child.t # "node"
    THEN Throw(h, "removeChild(): Illegal arguments.")
    ELSE LET idx == indexOf(h.nodes[n].children, child.v)
         IN IF idx < 0 THEN Throw(h, "removeChild(): element is not a child.")
            ELSE removeAt(h, n, idx)

\* replaceChild after `this.removeAt(idx)`; r is that call's result
replaceChild_insert(r, n, idx, newChild) ==
    IF r.err # "" THEN r ELSE insertAt(r.h, n, idx, newChild)

replaceChild(h, n, oldChild, newChild) ==
    IF newChild.t # "node" \/ oldChild.t # "node"
    THEN Throw(h, "replaceChild(): Illegal arguments.")
    ELSE IF indexOf(h.nodes[n].children, oldChild.v) < 0
         THEN Throw(h, "replaceChild(): element is not a child.")
    ELSE replaceChild_insert(removeAt(h, n, indexOf(h.nodes[n].children, oldChild.v)), n,
                             indexOf(h.nodes[n].children, oldChild.v), newChild)

\* while (children.length) { child = children.pop(); child.parent = null }
RECURSIVE empty_pop(_, _)
empty_pop(h, n) ==
    IF h.nodes[n].children = <<>> THEN h
    ELSE empty_pop(
            [outletSet(h, n, "children",
                       SubSeq(h.nodes[n].children, 1, Len(h.nodes[n].children) - 1))
             EXCEPT !.nodes[h.nodes[n].children[Len(h.nodes[n].children)]].parent = 0],
            n)

\* empty() without `delete this._innerHTMLString`
empty_KeepsRawContent(h, n) ==
    empty_pop(h, n)

empty(h, n) ==
    [empty_pop(h, n) EXCEPT !.nodes[n].innerHTML = UNDEFINED]

setInnerHTML(h, n, html) ==
    IF h.nodes[n].kind = "component" THEN Throw(h, "Can not set innerHTML of a Component")
    ELSE LET str == IF Truthy(html) THEN html.v ELSE ""
         IN Ok([empty(h, n) EXCEPT !.nodes[n].innerHTML = str], n)

setTextContent(h, n, text) ==
    LET str == String(IF Truthy(text) THEN text ELSE Str(""))
    IN appendChild(empty(h, n), n, Str(str))

\* throws unless _innerHTMLString is defined
getInnerHTML(h, n) ==
    IF h.nodes[n].innerHTML = UNDEFINED THEN Throw(h, "Not supported.")
    ELSE Ok(h, h.nodes[n].innerHTML)

\* ---------------------------------------------------------------- Outlet
\* new Outlet(virtualEl, name): n is virtualEl, a VirtualComponent
Outlet_slot(h, n, name) ==
    IF MapHas(h.nodes[n].props, name) THEN MapGet(h.nodes[n].props, name) ELSE Undef

\* _getOutlet without the `if (!outlet)` test: a new array at every use
_getOutlet_AlwaysNew(h, n, name) ==
    [h EXCEPT !.nodes[n].props = MapSet(@, name, Arr(<<>>))]

\* _getOutlet: the slot, made an empty array when props[name] is falsy
_getOutlet(h, n, name) ==
    IF Truthy(Outlet_slot(h, n, name)) THEN h
    ELSE [h EXCEPT !.nodes[n].props = MapSet(@, name, Arr(<<>>))]

Outlet_append(h, n, name, args) ==
    Returning(_append(_getOutlet(h, n, name), n, name, args), n)

\* arr.forEach(function (el) { this._detach(el) }.bind(this)): `this` is the
\* Outlet, which has no _detach method
Outlet_empty(h, n, name) ==
    IF isNil(Outlet_slot(h, n, name))
    THEN Throw(h, "TypeError: Cannot read properties of undefined (reading 'forEach')")
    ELSE IF Outlet_slot(h, n, name).v # <<>>
         THEN Throw(h, "TypeError: this._detach is not a function")
    ELSE Ok(outletSet(h, n, name, <<>>), n)


\* ---------------------------------------------------------------- factory
\* DOMElement.attr(object): setAttribute for every entry
RECURSIVE attr(_, _, _)
attr(h, n, props) ==
    IF props = <<>> THEN h
    ELSE attr(setAttribute(h, n, Head(props).k, Head(props).v), n, Tail(props))

\* util/flattenOften(arr, max): nested arrays collapsed, at most max levels deep
RECURSIVE flatten(_)
flatten(arr) ==
    IF arr = <<>> THEN <<>>
    ELSE (IF isArray(Head(arr)) THEN Head(arr).v ELSE <<Head(arr)>>) \o flatten(Tail(arr))

RECURSIVE flattenOften(_, _)
flattenOften(arr, max) ==
    IF max = 0 \/ \A i \in 1..Len(arr) : ~isArray(arr[i]) THEN arr
    ELSE flattenOften(flatten(arr), max - 1)

\* the loop over the keys of the second argument
classOf(_second) ==
    IF _second.t = "obj" /\ MapHas(_second.v, "class") THEN MapGet(_second.v, "class") ELSE Undef
refOf(_second) ==
    IF _second.t = "obj" /\ MapHas(_second.v, "ref") THEN MapGet(_second.v, "ref") ELSE Undef
propsOf(_second) ==
    IF _second.t = "obj" THEN SelectSeq(_second.v, LAMBDA p : p.k \notin {"class", "ref"})
    ELSE <<>>

\* new VirtualHTMLElement / new VirtualComponent, then content._owner = this.owner
createElement_content(h, c, _first, props) ==
    [(IF isString(_first)
      THEN attr(New(h, VirtualHTMLElement(_first.v)), Len(h.nodes) + 1, props)
      ELSE New(h, VirtualComponent(_first.v, props)))
     EXCEPT !.nodes[Len(h.nodes) + 1].owner = h.ctxs[c].owner]

\* if (classNames) content.addClass(classNames)
createElement_class(h, content, classNames) ==
    IF Truthy(classNames) THEN addClass(h, content, classNames.v) ELSE h

\* if (ref) content.ref(ref)
createElement_ref(h, content, refVal) ==
    IF Truthy(refVal) THEN ref(h, content, refVal) ELSE Ok(h, content)

\* if (arguments.length > 2) content.append(flattenOften(rest, 3)); return content
createElement_children(r, content, args) ==
    IF r.err # "" THEN r
    ELSE IF Len(args) > 2
         THEN Returning(append(r.h, content,
                               <<Arr(flattenOften(SubSeq(args, 3, Len(args)), 3))>>), content)
    ELSE Ok(r.h, content)

\* VirtualElement.createElement.apply(ctx, args); c is `this`
createElement(h, c, args) ==
    LET _first == IF Len(args) >= 1 THEN args[1] ELSE Undef
        _second == IF Len(args) >= 2 THEN args[2] ELSE Undef
        content == Len(h.nodes) + 1
    IN IF ~isString(_first) /\ ~isFunction(_first)
       THEN IF isNil(_first)
            THEN Throw(h, "$$(null): provided argument was null or undefined.")
            ELSE Throw(h, "Illegal usage of $$()")
       ELSE createElement_children(
                createElement_ref(
                    createElement_class(
                        createElement_content(h, c, _first, propsOf(_second)),
                        content, classOf(_second)),
                    content, refOf(_second)),
                content, args)

\* the capture with a component registered in `components` only
_createElement_capture_ComponentsApart(r, c) ==
    IF r.err # "" THEN r
    ELSE Ok([r.h EXCEPT !.nodes[r.ret].context = c,
                        !.nodes[r.ret].owner = r.h.ctxs[c].owner,
                        !.ctxs[c].components =
                            IF r.h.nodes[r.ret].kind = "component" THEN Append(@, r.ret) ELSE @,
                        !.ctxs[c].elements =
                            IF r.h.nodes[r.ret].kind = "component" THEN @ ELSE Append(@, r.ret)],
            r.ret)

\* the capture with the node put in front of the all-nodes list (unshift)
_createElement_capture_Unshift(r, c) ==
    IF r.err # "" THEN r
    ELSE Ok([r.h EXCEPT !.nodes[r.ret].context = c,
                        !.nodes[r.ret].owner = r.h.ctxs[c].owner,
                        !.ctxs[c].components =
                            IF r.h.nodes[r.ret].kind = "component" THEN Append(@, r.ret) ELSE @,
                        !.ctxs[c].elements = <<r.ret>> \o @], r.ret)

\* _createElement after createElement.apply(this, arguments); r is that call's result
_createElement_capture(r, c) ==
    IF r.err # "" THEN r
    ELSE Ok([r.h EXCEPT !.nodes[r.ret].context = c,
                        !.nodes[r.ret].owner = r.h.ctxs[c].owner,
                        !.ctxs[c].components =
                            IF r.h.nodes[r.ret].kind = "component" THEN Append(@, r.ret) ELSE @,
                        !.ctxs[c].elements = Append(@, r.ret)], r.ret)

\* VirtualElementContext._createElement, i.e. ctx.$$(...)
_createElement(h, c, args) ==
    _createElement_capture(createElement(h, c, args), c)

\* ---------------------------------------------------------------- the caller
Heap == [nodes |-> nodes, ctxs |-> ctxs]

NodeIds == 1..Len(nodes)
Elements == {n \in NodeIds : nodes[n].kind \in {"element", "component"}}

\* Objects a call allocated and then threw away are unreachable once it has
\* thrown, unless an object that existed before now points to them.
AfterCall(r) ==
    IF r.err # "" /\ r.h.ctxs = ctxs /\ SubSeq(r.h.nodes, 1, Len(nodes)) = nodes
    THEN Heap ELSE r.h

Call(op, n, args, r) ==
    /\ Len(AfterCall(r).nodes) <= MaxNodes
    /\ nodes' = AfterCall(r).nodes
    /\ ctxs' = AfterCall(r).ctxs
    /\ last' = [op |-> op, n |-> n, args |-> args, err |-> r.err, ret |-> r.ret]
    /\ steps' = steps + 1

\* arguments the caller passes
Nodes == {NodeV(n) : n \in NodeIds}
Children == {Undef, Obj(<<>>), Str("hi")} \cup Nodes
CreateArgs ==
    {<<Undef>>, <<Num(42)>>}
      \cup {<<f>> : f \in {Str("div"), Fn("Comp")}}
      \cup {<<f, Obj(<<[k |-> "ref", v |-> Str("x")]>>)>> : f \in {Str("div"), Fn("Comp")}}
      \cup {<<f, Undef, ch>> : f \in {Str("div"), Fn("Comp")}, ch \in Children \ {Undef}}
AppendArgs ==
    {<<>>} \cup {<<a>> : a \in Children}
      \cup {<<a, b>> : a \in Children \ {Undef}, b \in {Obj(<<>>), Str("hi")}}
RefArgs == {Undef} \cup {Str(r) : r \in RefIds}
HtmlArgs == {Undef, Str("<b>")}
Positions(n) == -1..(Len(nodes[n].children) + 1)

Init ==
    /\ nodes = <<>>
    /\ ctxs = [c \in CtxIds |-> VirtualElementContext(OwnerOf(c))]
    /\ last = [op |-> "new", n |-> 0, args |-> <<>>, err |-> "", ret |-> 0]
    /\ steps = 0

DoCreate == steps < MaxSteps /\ \E c \in CtxIds, args \in CreateArgs :
    Call("$$", c, <<>>, _createElement(Heap, c, args))

DoRef == steps < MaxSteps /\ \E n \in NodeIds, r \in RefArgs :
    Call("ref", n, <<>>, ref(Heap, n, r))

DoAppend == steps < MaxSteps /\ \E n \in Elements, args \in AppendArgs :
    Call("append", n, <<>>, append(Heap, n, args))

DoAppendChild == steps < MaxSteps /\ \E n \in Elements, child \in Children :
    Call("appendChild", n, <<>>, appendChild(Heap, n, child))

DoInsertAt == steps < MaxSteps /\ \E n \in Elements : \E pos \in Positions(n), child \in Children :
    Call("insertAt", n, <<>>, insertAt(Heap, n, pos, child))

DoInsertBefore == steps < MaxSteps /\ \E n \in Elements, child \in Children, before \in Nodes \cup {Undef} :
    Call("insertBefore", n, <<>>, insertBefore(Heap, n, child, before))

DoRemoveAt == steps < MaxSteps /\ \E n \in Elements : \E pos \in Positions(n) :
    Call("removeAt", n, <<Num(pos)>>, removeAt(Heap, n, pos))

DoRemoveChild == steps < MaxSteps /\ \E n \in Elements, child \in Nodes \cup {Undef} :
    Call("removeChild", n, <<>>, removeChild(Heap, n, child))

DoReplaceChild == steps < MaxSteps /\ \E n \in Elements, oldChild \in Nodes \cup {Undef}, newChild \in Nodes \cup {Undef} :
    Call("replaceChild", n, <<>>, replaceChild(Heap, n, oldChild, newChild))

DoEmpty == steps < MaxSteps /\ \E n \in Elements :
    Call("empty", n, <<>>, Ok(empty(Heap, n), n))

DoSetInnerHTML == steps < MaxSteps /\ \E n \in Elements, html \in HtmlArgs :
    Call("setInnerHTML", n, <<>>, setInnerHTML(Heap, n, html))

DoSetTextContent == steps < MaxSteps /\ \E n \in Elements, text \in {Undef, Str("hi")} :
    Call("setTextContent", n, <<>>, setTextContent(Heap, n, text))

Next ==
    \/ DoCreate
    \/ DoRef
    \/ DoAppend
    \/ DoAppendChild
    \/ DoInsertAt
    \/ DoInsertBefore
    \/ DoRemoveAt
    \/ DoRemoveChild
    \/ DoReplaceChild
    \/ DoEmpty
    \/ DoSetInnerHTML
    \/ DoSetTextContent

Spec == Init /\ [][Next]_vars



\* ---------------------------------------------------------------- factory calls
\* One factory call with a full argument list, made on top of a few leaf nodes.
Scalars == {Str("hello"), Num(0), Bool(TRUE)}
FullChildren ==
    {Undef, Null, Obj(<<>>)} \cup Scalars \cup Nodes
      \cup {Arr(<<Str("a"), Undef>>)}
      \cup {Arr(<<NodeV(n), Arr(<<Num(7)>>)>>) : n \in NodeIds}
ChildLists ==
    {<<>>} \cup {<<a>> : a \in FullChildren} \cup {<<a, b>> : a, b \in FullChildren}
ClassKeys == {<<>>, <<[k |-> "class", v |-> Str("a")]>>, <<[k |-> "class", v |-> Str("")]>>}
RefKeys == {<<>>, <<[k |-> "ref", v |-> Str("x")]>>}
OtherKeys ==
    {<<>>, <<[k |-> "id", v |-> Str("x")]>>,
     <<[k |-> "id", v |-> Num(7)], [k |-> "title", v |-> Bool(TRUE)]>>}
PropBags == {Undef} \cup {Obj(o \o c \o r) : c \in ClassKeys, r \in RefKeys, o \in OtherKeys}
FullArgs ==
    {<<Undef>>, <<Null>>, <<Num(42)>>, <<Obj(<<>>)>>, <<Str("div")>>, <<Fn("Comp")>>}
      \cup {<<f, p>> \o ch : f \in {Str("div"), Fn("Comp")}, p \in PropBags, ch \in ChildLists}

DoLeaf == steps < MaxSteps /\ last.args = <<>> /\
    \E c \in CtxIds, f \in {Str("span"), Fn("Comp")} :
        Call("$$", c, <<>>, _createElement(Heap, c, <<f>>))

DoCreateFull == steps < MaxSteps /\ last.args = <<>> /\
    \E c \in CtxIds, args \in FullArgs :
        Call("$$", c, args, _createElement(Heap, c, args))

NextFactory ==
    \/ DoLeaf
    \/ DoCreateFull

SpecFactory == Init /\ [][NextFactory]_vars

\* ---------------------------------------------------------------- slots
\* Child calls on elements and component placeholders and on the outlets of
\* placeholders, with the arguments of each call kept in `last`.
Components == {n \in NodeIds : nodes[n].kind = "component"}
OutletNames == {"slot", "children"}
SlotProps == Obj(<<[k |-> "name", v |-> Str("Ann")], [k |-> "class", v |-> Str("a")]>>)
SlotCreateArgs ==
    {<<Str("div")>>, <<Fn("Comp")>>, <<Fn("Comp"), SlotProps, Str("hi")>>,
     <<Str("div"), Undef, Str("a"), Str("b")>>}
      \cup {<<Str("div"), Undef, ch>> : ch \in Nodes}
SlotAppendArgs ==
    {<<>>, <<Undef>>, <<Str("hi")>>, <<Obj(<<>>)>>, <<Bool(FALSE), Null, Num(0)>>,
     <<Str("hi"), Obj(<<>>)>>}
      \cup {<<a>> : a \in Nodes} \cup {<<a, a>> : a \in Nodes}
SlotChildren == {Undef, Str("hi"), Obj(<<>>)} \cup Nodes

DoSlotCreate == steps < MaxSteps /\ \E c \in CtxIds, args \in SlotCreateArgs :
    Call("$$", c, args, _createElement(Heap, c, args))

DoSlotAppend == steps < MaxSteps /\ \E n \in Elements, args \in SlotAppendArgs :
    Call("append", n, args, append(Heap, n, args))

DoSlotInsertAt == steps < MaxSteps /\ \E n \in Elements :
    \E pos \in Positions(n), child \in SlotChildren :
        Call("insertAt", n, <<Num(pos), child>>, insertAt(Heap, n, pos, child))

DoSlotEmpty == steps < MaxSteps /\ \E n \in Elements :
    Call("empty", n, <<>>, Ok(empty(Heap, n), n))

DoOutletAppend == steps < MaxSteps /\ \E n \in Components, name \in OutletNames, args \in SlotAppendArgs :
    Call("outlet.append", n, <<Str(name)>> \o args, Outlet_append(Heap, n, name, args))

DoOutletEmpty == steps < MaxSteps /\ \E n \in Components, name \in OutletNames :
    Call("outlet.empty", n, <<Str(name)>>, Outlet_empty(Heap, n, name))

NextSlots ==
    \/ DoSlotCreate
    \/ DoSlotAppend
    \/ DoSlotInsertAt
    \/ DoSlotEmpty
    \/ DoOutletAppend
    \/ DoOutletEmpty

SpecSlots == Init /\ [][NextSlots]_vars

\* ---------------------------------------------------------------- attributes
\* Class, style and attribute calls on elements.
HtmlElements == {n \in NodeIds : nodes[n].kind = "element"}
ClassNames == {"a", "b"}
StyleNames == {"color", "width"}
StyleValues == {Str("red"), Num(5)}
AttrNames == {"id", "class", "style"}
AttrValues == {Str("x"), Num(7)}
AttrCreateArgs ==
    {<<Str("div")>>,
     <<Str("div"), Obj(<<[k |-> "class", v |-> Str("a")], [k |-> "id", v |-> Str("x")]>>)>>}

DoAttrCreate == steps < MaxSteps /\ \E c \in CtxIds, args \in AttrCreateArgs :
    Call("$$", c, args, _createElement(Heap, c, args))

DoAddClass == steps < MaxSteps /\ \E n \in HtmlElements, className \in ClassNames :
    Call("addClass", n, <<Str(className)>>, Ok(addClass(Heap, n, className), n))

DoRemoveClass == steps < MaxSteps /\ \E n \in HtmlElements, className \in ClassNames :
    Call("removeClass", n, <<Str(className)>>, Ok(removeClass(Heap, n, className), n))

DoSetStyle == steps < MaxSteps /\ \E n \in HtmlElements, name \in StyleNames, value \in StyleValues :
    Call("setStyle", n, <<Str(name), value>>, Ok(setStyle(Heap, n, name, value), n))

DoSetAttribute == steps < MaxSteps /\ \E n \in HtmlElements, name \in AttrNames, value \in AttrValues :
    Call("setAttribute", n, <<Str(name), value>>, Ok(setAttribute(Heap, n, name, value), n))

DoRemoveAttribute == steps < MaxSteps /\ \E n \in HtmlElements, name \in AttrNames :
    Call("removeAttribute", n, <<Str(name)>>, Ok(removeAttribute(Heap, n, name), n))

NextAttrs ==
    \/ DoAttrCreate
    \/ DoAddClass
    \/ DoRemoveClass
    \/ DoSetStyle
    \/ DoSetAttribute
    \/ DoRemoveAttribute

SpecAttrs == Init /\ [][NextAttrs]_vars

\* ---------------------------------------------------------------- copy and merge
\* Two elements of one context, each brought to its state by a chain of setter
\* calls, then _clear() and _merge(_copy()) between them.
\* one call of the chain
Setter(h, n, call) ==
    CASE call.m = "addClass" -> addClass(h, n, call.k)
      [] call.m = "removeClass" -> removeClass(h, n, call.k)
      [] call.m = "setAttribute" -> setAttribute(h, n, call.k, call.v)
      [] call.m = "setProperty" -> setProperty(h, n, call.k, call.v)
      [] call.m = "setStyle" -> setStyle(h, n, call.k, call.v)
      [] call.m = "addEventListener" -> addEventListener(h, n, call.k)

\* $$('div').addClass(..).removeClass(..).setAttribute(..).setProperty(..)
\*          .setStyle(..).addEventListener(..)
RECURSIVE Chain(_, _, _)
Chain(h, n, calls) ==
    IF calls = <<>> THEN h ELSE Chain(Setter(h, n, Head(calls)), n, Tail(calls))

SetterCall(m, k, v) == [m |-> m, k |-> k, v |-> v]
Chains ==
    {a \o r \o t \o p \o s \o l :
        a \in {<<>>, <<SetterCall("addClass", "a", Undef)>>},
        r \in {<<>>, <<SetterCall("removeClass", "a", Undef)>>},
        t \in {<<>>, <<SetterCall("setAttribute", "id", Str("x"))>>,
                <<SetterCall("setAttribute", "title", Str("t")),
                  SetterCall("setAttribute", "id", Num(7))>>},
        p \in {<<>>, <<SetterCall("setProperty", "value", Num(1))>>},
        s \in {<<>>, <<SetterCall("setStyle", "color", Str("red"))>>},
        l \in {<<>>, <<SetterCall("addEventListener", "click", Undef)>>}}

TwoDivs ==
    _createElement(
        _createElement([nodes |-> <<>>,
                        ctxs |-> [c \in CtxIds |-> VirtualElementContext(OwnerOf(c))]],
                       1, <<Str("div")>>).h,
        1, <<Str("div")>>).h

InitMerge ==
    \E first \in Chains, second \in Chains :
        /\ nodes = Chain(Chain(TwoDivs, Len(TwoDivs.nodes) - 1, first),
                         Len(TwoDivs.nodes), second).nodes
        /\ ctxs = TwoDivs.ctxs
        /\ last = [op |-> "new", n |-> 0, args |-> <<>>, err |-> "", ret |-> 0]
        /\ steps = 0

DoClear == steps < MaxSteps /\ \E n \in HtmlElements :
    Call("_clear", n, <<>>, Ok(_clear(Heap, n), 0))

DoMerge == steps < MaxSteps /\ \E n \in HtmlElements, from \in HtmlElements :
    Call("_merge", n, <<NodeV(from)>>, Ok(_merge(Heap, n, _copy(Heap, from)), 0))

NextMerge ==
    \/ DoClear
    \/ DoMerge

SpecMerge == InitMerge /\ [][NextMerge]_vars

\* ---------------------------------------------------------------- properties
InSeq(x, s) == \E i \in 1..Len(s) : s[i] = x
OnlyOnce == "A VirtualElement can only be referenced once."

\* C1: once a node has a reference id, no call changes or clears it, and every
\* later ref() on that node, with whatever id, throws.
C1_RefIsSetOnce ==
    [][\A n \in NodeIds :
          TruthyS(nodes[n].ref) =>
              /\ nodes'[n].ref = nodes[n].ref
              /\ (last'.op = "ref" /\ last'.n = n => last'.err # "")]_vars

\* a registered node was asked for a second reference and the call threw
C1_Witness ==
    /\ last.op = "ref"
    /\ last.err = OnlyOnce
    /\ nodes[last.n].context # 0
    /\ ctxs[nodes[last.n].context].refs[nodes[last.n].ref] = last.n


\* C2: two distinct nodes of one context never both get the same reference id by
\* successful calls: the call that gives the second node the id (ref(x), or the
\* factory with a `ref` key) throws.
C2_DuplicateRefFails ==
    LET given == IF last.op = "ref" THEN last.n ELSE IF last.op = "$$" THEN last.ret ELSE 0
    IN (last.err = "" /\ given # 0 /\ nodes[given].context # 0 /\ TruthyS(nodes[given].ref))
          => \A m \in NodeIds \ {given} :
                ~(nodes[m].context = nodes[given].context /\ nodes[m].ref = nodes[given].ref)

\* C3: a node created by a context carries reference id r exactly when the
\* context's refs mapping maps r to that node.
C3_RefsMappingAgrees ==
    \A n \in NodeIds :
        nodes[n].context # 0 =>
            \A r \in RefIds : (nodes[n].ref = r) <=> (ctxs[nodes[n].context].refs[r] = n)

\* C4: an element never has raw content set while its child list is non-empty.
C4_RawContentExcludesChildren ==
    \A n \in NodeIds :
        nodes[n].kind = "element" =>
            ~(TruthyS(nodes[n].innerHTML) /\ nodes[n].children # <<>>)

\* C5: removeAt(pos) with 0 <= pos < length succeeds, removes exactly the child at
\* pos, keeps the order of the others, unlinks the child's parent and drops the
\* child from the context's injected list.
C5_RemoveAtDetaches ==
    [][(last'.op = "removeAt" /\ steps' = steps + 1) =>
          LET n == last'.n
              pos == last'.args[1].v
          IN (nodes[n].kind = "element" /\ pos >= 0 /\ pos < Len(nodes[n].children)) =>
                LET child == nodes[n].children[pos + 1]
                IN /\ last'.err = ""
                   /\ nodes'[n].children = spliceOut(nodes[n].children, pos)
                   /\ nodes'[child].parent = 0
                   /\ nodes[n].context # 0 =>
                         ~InSeq(child, ctxs'[nodes[n].context].injectedComponents)]_vars

\* C6: a component placeholder of another owner that is a child of an element
\* created by a context is in that context's injected-component list.
C6_ForeignPlaceholderIsInjected ==
    \A p \in NodeIds :
        (nodes[p].kind = "element" /\ nodes[p].context # 0) =>
            \A i \in 1..Len(nodes[p].children) :
                LET k == nodes[p].children[i]
                IN (nodes[k].kind = "component" /\ nodes[k].owner # nodes[p].owner)
                      => InSeq(k, ctxs[nodes[p].context].injectedComponents)

\* C7: once attach has recorded a foreign child under its reference id, looking
\* the id up in the foreignRefs Map (has/get) yields that child.
C7_ForeignRefLookup ==
    \A p \in NodeIds :
        (nodes[p].kind = "element" /\ nodes[p].context # 0) =>
            \A i \in 1..Len(nodes[p].children) :
                LET k == nodes[p].children[i]
                    f == ctxs[nodes[p].context].foreignRefs
                IN (nodes[k].owner # nodes[p].owner /\ TruthyS(nodes[k].ref)
                      /\ f.own[nodes[k].ref] = k)
                      => f.entries[nodes[k].ref] = k

\* C8 as stated: every node constructed in the pass, text nodes included, is in
\* a context's all-nodes list.
C8_EveryNodeCaptured ==
    \A n \in NodeIds : \E c \in CtxIds : InSeq(n, ctxs[c].elements)

\* C8 amended: the nodes a context's factory call returns (elements and component
\* placeholders) are in that context's all-nodes list; text nodes made by wrapping
\* a scalar child are in no context's list.
C8_FactoryNodesCaptured ==
    /\ (last.op = "$$" /\ last.err = "") =>
          /\ last.ret \in NodeIds
          /\ nodes[last.ret].context = last.n
    /\ \A n \in NodeIds :
          /\ nodes[n].context # 0 =>
                /\ nodes[n].kind \in {"element", "component"}
                /\ InSeq(n, ctxs[nodes[n].context].elements)
          /\ nodes[n].kind = "text" => \A c \in CtxIds : ~InSeq(n, ctxs[c].elements)

\* a factory call returned an element and a component holding a wrapped scalar
C8_Witness ==
    /\ last.op = "$$" /\ last.err = ""
    /\ nodes[last.ret].kind = "component"
    /\ \E i \in 1..Len(nodes[last.ret].children) :
          nodes[nodes[last.ret].children[i]].kind = "text"
    /\ \E n \in NodeIds : nodes[n].kind = "element" /\ nodes[n].context # 0

\* C9: a call that throws leaves every node and both contexts as they were.
C9_FailedCallChangesNothing ==
    [][(steps' = steps + 1 /\ last'.err # "") => (nodes' = nodes /\ ctxs' = ctxs)]_vars


\* every array of the argument list opened, in argument order
RECURSIVE Leaves(_)
Leaves(arr) ==
    IF arr = <<>> THEN <<>>
    ELSE (IF isArray(Head(arr)) THEN Leaves(Head(arr).v) ELSE <<Head(arr)>>)
            \o Leaves(Tail(arr))

IsScalar(x) == x.t \in {"str", "num", "bool"}

\* C10: create(tag, props, children...) with a string tag returns an element with
\* that tag, class list [props.class] when a class is given, the other keys of
\* props (not `class`, not `ref`) as attributes with string values, and as child
\* list the flattened children in argument order, nil dropped, scalars wrapped in
\* text nodes; a nil first argument throws, and so does one that is neither a
\* string nor a component type.
C10_FactoryBuildsElement ==
    (last.op = "$$" /\ last.args # <<>>) =>
        LET first == last.args[1]
            bag == IF Len(last.args) >= 2 /\ last.args[2].t = "obj" THEN last.args[2].v ELSE <<>>
            kids == SelectSeq(Leaves(SubSeq(last.args, 3, Len(last.args))), LAMBDA x : ~isNil(x))
            others == SelectSeq(bag, LAMBDA p : p.k \notin {"class", "ref"})
            e == nodes[last.ret]
        IN /\ isNil(first) => last.err = "$$(null): provided argument was null or undefined."
           /\ (~isNil(first) /\ ~isString(first) /\ ~isFunction(first))
                 => last.err = "Illegal usage of $$()"
           /\ (isString(first) /\ \A i \in 1..Len(kids) : IsScalar(kids[i]) \/ kids[i].t = "node") =>
                 /\ last.err = ""
                 /\ e.kind = "element"
                 /\ e.tagName = first.v
                 /\ e.classNames = IF MapHas(bag, "class") /\ MapGet(bag, "class").v # ""
                                   THEN Some(<<MapGet(bag, "class").v>>) ELSE None
                 /\ e.attributes = IF others = <<>> THEN None
                                   ELSE Some([i \in 1..Len(others) |->
                                                [k |-> others[i].k, v |-> String(others[i].v)]])
                 /\ Len(e.children) = Len(kids)
                 /\ \A i \in 1..Len(kids) :
                       IF kids[i].t = "node" THEN e.children[i] = kids[i].v
                       ELSE /\ nodes[e.children[i]].kind = "text"
                            /\ nodes[e.children[i]].text = String(kids[i])
                            /\ e.children[i] > last.ret

\* the call built an element with a class, two attributes, an existing node from
\* a nested array and a wrapped falsy number, and dropped a nil child
C10_Witness ==
    /\ last.op = "$$" /\ last.err = "" /\ Len(last.args) = 4
    /\ nodes[last.ret].kind = "element"
    /\ nodes[last.ret].classNames # None
    /\ nodes[last.ret].attributes # None /\ Len(nodes[last.ret].attributes[1]) = 2
    /\ isNil(last.args[3])
    /\ isArray(last.args[4])
    /\ Len(nodes[last.ret].children) = 2
    /\ nodes[nodes[last.ret].children[1]].kind # "text"
    /\ nodes[nodes[last.ret].children[2]].text = "7"

\* the entries of m whose key is not reserved are entries of p, value unchanged
KeptIn(m, p, reserved) ==
    \A i \in 1..Len(m) :
        m[i].k \notin reserved => (MapHas(p, m[i].k) /\ MapGet(p, m[i].k) = m[i].v)

\* C11: a component placeholder's child list is the list under the `children`
\* key of its props (same nodes, same order) in every state, after the factory
\* call and after every later append/insertAt; the factory stores every key of
\* the given props other than `class` and `ref` verbatim, and append/insertAt
\* leave every key other than `children` as it is.
C11_ChildrenIsPropsChildren ==
    /\ [](\A n \in Components :
            /\ MapHas(nodes[n].props, "children")
            /\ MapGet(nodes[n].props, "children") = Arr(nodes[n].children))
    /\ []((last.op = "$$" /\ last.err = "" /\ isFunction(last.args[1])
              /\ Len(last.args) >= 2 /\ last.args[2].t = "obj")
            => KeptIn(last.args[2].v, nodes[last.ret].props, {"class", "ref"}))
    /\ [][last'.op \in {"append", "insertAt"} =>
            \A n \in Components : KeptIn(nodes[n].props, nodes'[n].props, {"children"})]_vars

\* a placeholder created with a `name` prop and one child got a second child
\* by a later call
C11_Witness ==
    /\ last.op \in {"append", "insertAt"} /\ last.err = ""
    /\ nodes[last.n].kind = "component"
    /\ MapHas(nodes[last.n].props, "name")
    /\ Len(nodes[last.n].children) = 2

\* C12: Outlet.empty() on an existing slot of a placeholder returns normally,
\* clears the preliminary parent of every node that was in the slot and leaves
\* the slot an empty list.
C12_OutletEmptyDetaches ==
    [][(last'.op = "outlet.empty" /\ steps' = steps + 1
          /\ MapHas(nodes[last'.n].props, last'.args[1].v)) =>
          LET n == last'.n
              name == last'.args[1].v
              slot == MapGet(nodes[n].props, name).v
          IN /\ last'.err = ""
             /\ \A i \in 1..Len(slot) : nodes'[slot[i]].preliminaryParent = 0
             /\ MapGet(nodes'[n].props, name) = Arr(<<>>)]_vars

\* the class list and the style pairs of a node, empty when never set
classList(node) == IF node.classNames = None THEN <<>> ELSE node.classNames[1]
stylePairs(node) == IF node.style = None THEN <<>> ELSE styleEntries(node.style[1])

\* C13: getAttributes() of an element has a `class` entry iff a class was added
\* to it and a `style` entry iff a style property was set.  Stated call by call:
\* a new element has the entry iff the factory was given a class; addClass
\* (setStyle) makes the entry present; no other call changes whether it is
\* present; and a present entry is the class list joined by " " (the key:value
\* pairs joined by ";").
C13_ClassAndStyleEntries ==
    [][steps' = steps + 1 =>
          \A n \in 1..Len(nodes') :
              nodes'[n].kind = "element" =>
                  LET now == getAttributes([nodes |-> nodes', ctxs |-> ctxs'], n)
                      isNew == n > Len(nodes)
                      classAdded ==
                          \/ last'.op = "addClass" /\ last'.n = n
                          \/ isNew /\ Truthy(classOf(IF Len(last'.args) >= 2
                                                      THEN last'.args[2] ELSE Undef))
                      styleSet == last'.op = "setStyle" /\ last'.n = n
                  IN /\ MapHas(now, "class") <=>
                          (classAdded \/ (~isNew /\ MapHas(getAttributes(Heap, n), "class")))
                     /\ MapHas(now, "style") <=>
                          (styleSet \/ (~isNew /\ MapHas(getAttributes(Heap, n), "style")))
                     /\ MapHas(now, "class") =>
                          MapGet(now, "class") = join(classList(nodes'[n]), " ")
                     /\ MapHas(now, "style") =>
                          MapGet(now, "style") = join(stylePairs(nodes'[n]), ";")]_vars

\* the five fields _copy and _merge are about
Rendering(node) ==
    <<node.classNames, node.attributes, node.htmlProps, node.style, node.eventListeners>>

\* r is list a followed by list b, an unset list counting as no entries unless
\* both are unset
IsConcat(a, b, r) ==
    IF b = None THEN r = a
    ELSE IF a = None THEN r = b
    ELSE r = Some(a[1] \o b[1])

\* r is map a overwritten by map b: b's value on b's keys, a's value on the
\* keys of a alone, no other key
IsOverwrite(a, b, r) ==
    IF b = None THEN r = a
    ELSE IF a = None THEN r = b
    ELSE /\ r # None
         /\ \A i \in 1..Len(b[1]) : MapHas(r[1], b[1][i].k) /\ MapGet(r[1], b[1][i].k) = b[1][i].v
         /\ \A i \in 1..Len(a[1]) :
               MapHas(r[1], a[1][i].k)
               /\ (~MapHas(b[1], a[1][i].k) => MapGet(r[1], a[1][i].k) = a[1][i].v)
         /\ \A i \in 1..Len(r[1]) :
               /\ MapHas(a[1], r[1][i].k) \/ MapHas(b[1], r[1][i].k)
               /\ \A j \in 1..Len(r[1]) : r[1][j].k = r[1][i].k => j = i

\* C14: merging e._copy() into a cleared element gives it e's class list,
\* attributes, DOM properties, style and listeners; in general _merge puts the
\* other lists after this node's and overwrites this node's map entries with the
\* other's, keeping the keys only this node has.
C14_CopyMergeRoundTrip ==
    [][(last'.op = "_merge" /\ steps' = steps + 1) =>
          LET this == nodes[last'.n]
              other == nodes[last'.args[1].v]
              merged == nodes'[last'.n]
          IN /\ Rendering(this) = <<None, None, None, None, None>>
                   => Rendering(merged) = Rendering(other)
             /\ IsConcat(this.classNames, other.classNames, merged.classNames)
             /\ IsConcat(this.eventListeners, other.eventListeners, merged.eventListeners)
             /\ IsOverwrite(this.attributes, other.attributes, merged.attributes)
             /\ IsOverwrite(this.htmlProps, other.htmlProps, merged.htmlProps)
             /\ IsOverwrite(this.style, other.style, merged.style)]_vars

\* a node was cleared and then given the copy of another node that has classes,
\* two attributes, a property, a style and a listener
C14_Witness ==
    /\ last.op = "_merge" /\ last.args[1].v # last.n /\ steps > 1
    /\ Rendering(nodes[last.n]) = Rendering(nodes[last.args[1].v])
    /\ \A i \in 1..Len(Rendering(nodes[last.n])) : Rendering(nodes[last.n])[i] # None
    /\ Len(nodes[last.n].classNames[1]) > 0
    /\ Len(nodes[last.n].attributes[1]) > 1

\* C15: insertAt(pos, child) on an element with a child that is a node or a
\* scalar succeeds for every 0 <= pos <= length: the child (the text node made
\* for a scalar) is then at index pos, the list is one longer and the other
\* children keep their order; with pos < 0, pos > length or a nil child the call
\* throws and the child list is unchanged.
C15_InsertAtBounds ==
    [][(last'.op = "insertAt" /\ steps' = steps + 1 /\ nodes[last'.n].kind = "element") =>
          LET pos == last'.args[1].v
              child == last'.args[2]
              old == nodes[last'.n].children
              new == nodes'[last'.n].children
          IN IF isNil(child) \/ pos < 0 \/ pos > Len(old)
             THEN last'.err # "" /\ new = old
             ELSE (child.t = "node" \/ IsScalar(child)) =>
                     /\ last'.err = ""
                     /\ Len(new) = Len(old) + 1
                     /\ spliceOut(new, pos) = old
                     /\ IF child.t = "node" THEN new[pos + 1] = child.v
                        ELSE /\ new[pos + 1] = Len(nodes) + 1
                             /\ nodes'[new[pos + 1]].kind = "text"
                             /\ nodes'[new[pos + 1]].text = String(child)]_vars

\* a scalar was inserted in front of the only child of an element
C15_Witness ==
    /\ last.op = "insertAt" /\ last.err = ""
    /\ nodes[last.n].kind = "element"
    /\ last.args[1].v = 0
    /\ Len(nodes[last.n].children) = 2
    /\ nodes[nodes[last.n].children[1]].kind = "text"

\* n is reached from m by following parent links, at most `fuel` of them
RECURSIVE ReachesUp(_, _, _)
ReachesUp(m, n, fuel) ==
    /\ fuel > 0
    /\ nodes[m].parent # 0
    /\ (nodes[m].parent = n \/ ReachesUp(nodes[m].parent, n, fuel - 1))

\* C16: the parent/child relation of elements is a tree: a node occurs at most
\* once in at most one element's child list, every node in an element's child
\* list has that element as its parent, and no node is its own ancestor.
C16_ParentChildIsTree ==
    /\ \A p \in HtmlElements, q \in HtmlElements :
          \A i \in 1..Len(nodes[p].children), j \in 1..Len(nodes[q].children) :
              nodes[p].children[i] = nodes[q].children[j] => (p = q /\ i = j)
    /\ \A p \in HtmlElements :
          \A i \in 1..Len(nodes[p].children) : nodes[nodes[p].children[i]].parent = p
    /\ \A n \in NodeIds : ~ReachesUp(n, n, Len(nodes))

\* the placeholders of another owner that are a child of an element of context c
ForeignChildren(c) ==
    {k \in Components :
        /\ nodes[k].owner # ctxs[c].owner
        /\ \E p \in HtmlElements : nodes[p].context = c /\ InSeq(k, nodes[p].children)}

\* C17: a context's injected-component list holds exactly the placeholders of
\* another owner that are currently a child of one of its elements, each once.
C17_InjectedListExact ==
    \A c \in CtxIds :
        LET inj == ctxs[c].injectedComponents
        IN /\ {inj[i] : i \in 1..Len(inj)} = ForeignChildren(c)
           /\ \A i \in 1..Len(inj), j \in 1..Len(inj) : inj[i] = inj[j] => i = j

\* node m is in the children slot or in an outlet slot of placeholder k
HeldBy(k, m) ==
    \E i \in 1..Len(nodes[k].props) :
        isArray(nodes[k].props[i].v) /\ InSeq(m, nodes[k].props[i].v.v)

\* C18: a child call on a placeholder (append, insertAt, empty, its outlets'
\* append) changes no node's parent link, and a node's preliminary parent is
\* placeholder k exactly when the node is in k's children slot or in one of k's
\* outlet slots.
C18_PreliminaryParentOnly ==
    /\ [](\A k \in Components, m \in NodeIds :
            (nodes[m].preliminaryParent = k) <=> HeldBy(k, m))
    /\ [][(last'.op \in {"append", "insertAt", "empty", "outlet.append"}
             /\ steps' = steps + 1 /\ nodes[last'.n].kind = "component")
            => \A m \in NodeIds : nodes'[m].parent = nodes[m].parent]_vars

\* C19: empty() on an element returns normally; afterwards the child list is
\* empty, every former child has no parent and no raw content is set, so that
\* an append on the element succeeds and getInnerHTML throws.
C19_EmptyClears ==
    [][(last'.op = "empty" /\ steps' = steps + 1 /\ nodes[last'.n].kind = "element") =>
          /\ last'.err = ""
          /\ nodes'[last'.n].children = <<>>
          /\ \A i \in 1..Len(nodes[last'.n].children) :
                nodes'[nodes[last'.n].children[i]].parent = 0
          /\ nodes'[last'.n].innerHTML = UNDEFINED
          /\ append([nodes |-> nodes', ctxs |-> ctxs'], last'.n, <<Str("hi")>>).err = ""
          /\ getInnerHTML([nodes |-> nodes', ctxs |-> ctxs'], last'.n).err = "Not supported."]_vars

\* an element created with a scalar child was emptied: its text node is in no
\* list and has no parent
C19_Witness ==
    /\ last.op = "empty" /\ last.err = "" /\ steps = 2
    /\ nodes[last.n].kind = "element"
    /\ nodes[last.n].children = <<>>
    /\ \E m \in NodeIds :
          nodes[m].kind = "text" /\ nodes[m].parent = 0 /\ nodes[m].preliminaryParent = 0

\* the list a call of append / outlet.append works on, in heap `ns`
TargetList(ns, op, n, args) ==
    IF op = "append" THEN ns[n].children
    ELSE IF MapHas(ns[n].props, args[1].v) THEN MapGet(ns[n].props, args[1].v).v
    ELSE <<>>

C21_OwnerIsFixed ==
    [][/\ \A n \in NodeIds : nodes'[n].owner = nodes[n].owner
       /\ \A c \in CtxIds : ctxs'[c].owner = ctxs[c].owner
       /\ (last'.op = "$$" /\ last'.err = "" /\ steps' = steps + 1) =>
             nodes'[last'.ret].owner = ctxs'[last'.n].owner
       /\ \A n \in 1..Len(nodes') :
             nodes'[n].context # 0 => nodes'[n].owner = ctxs'[nodes'[n].context].owner]_vars

\* a node made by context 2 (owner B) was appended to an element made by
\* context 1 (owner A) and still has owner B
C21_Witness ==
    /\ last.op \in {"append", "appendChild"} /\ last.err = ""
    /\ nodes[last.n].context = 1 /\ nodes[last.n].owner = "A"
    /\ \E k \in NodeIds :
          /\ nodes[k].context = 2 /\ nodes[k].owner = "B"
          /\ nodes[k].parent = last.n
          /\ InSeq(k, nodes[last.n].children)

\* the placeholders of a list of nodes, in the order of the list
PlaceholdersOf(ns, list) == SelectSeq(list, LAMBDA n : ns[n].kind = "component")

\* C22: a successful factory call of a context puts the node it returns, a node
\* in no all-nodes list so far, at the end of that context's all-nodes list and
\* leaves the other context's lists alone; every other call (ref, a child
\* operation, a factory call that throws) leaves both lists of both contexts as
\* they were; and a context's component list is at all times the placeholders of
\* its all-nodes list in the same order. So the all-nodes list is the returned
\* nodes, each once, in the order the calls completed.
C22_CaptureOrder ==
    [][steps' = steps + 1 =>
          \A c \in CtxIds :
             /\ IF last'.op = "$$" /\ last'.err = "" /\ last'.n = c
                THEN /\ ctxs'[c].elements = Append(ctxs[c].elements, last'.ret)
                     /\ \A d \in CtxIds : ~InSeq(last'.ret, ctxs[d].elements)
                     /\ last'.ret > Len(nodes)
                ELSE /\ ctxs'[c].elements = ctxs[c].elements
                     /\ ctxs'[c].components = ctxs[c].components
             /\ ctxs'[c].components = PlaceholdersOf(nodes', ctxs'[c].elements)]_vars

\* a context captured an element and then the placeholder that got this element
\* as a child argument: the nested call's node comes first, and the component
\* list holds the placeholder alone
C22_Witness ==
    /\ last.op = "$$" /\ last.err = ""
    /\ Len(ctxs[last.n].elements) = 2
    /\ ctxs[last.n].elements[2] = last.ret
    /\ nodes[ctxs[last.n].elements[1]].kind = "element"
    /\ nodes[last.ret].kind = "component"
    /\ nodes[last.ret].children = <<ctxs[last.n].elements[1]>>
    /\ ctxs[last.n].components = <<last.ret>>

====
